---------------------------- MODULE Spec2Model ----------------------------
(***************************************************************************)
(* CB2 Bot (src/main.py, src/helpers.py): the EventSub webhook handler     *)
(* (RequestHandler.do_POST, served by a single-threaded HTTPServer on a    *)
(* daemon thread), the signature check (helpers.verify_signature), and the *)
(* stored-command engine of the chat loop (command, command_handler,       *)
(* CooldownHandler), the chat loop itself (main, clear_seen_users,         *)
(* shut_down) and the chat-send primitive (sendmsg).                       *)
(*                                                                         *)
(* Conventions.  A Python value that may be None is a sequence of length   *)
(* at most one: None is << >>, a present value v is << v >>.  A str is a   *)
(* sequence of characters; bytes are a sequence of byte tokens.  A call    *)
(* that may raise returns a record with the exception's name in "exc"      *)
(* ("" when it returned).                                                  *)
(***************************************************************************)
EXTENDS Integers, Sequences, FiniteSets, TLC

VARIABLES
    seen_message_ids,   \* main.py:79   list of Twitch-Eventsub-Message-Id values
    conn,               \* connections of the HTTP server: queued or in the handler
    last,               \* the exchange the handler finished last (request, branch, response)
    chat,               \* lines written to ircserver by sendmsg, oldest first
    nreq,               \* number of webhook requests that have arrived
    posted,             \* history: the message ids do_POST has been entered with
    vargs,              \* arguments of a direct call of verify_signature
    vret,               \* what that call did
    db,                 \* the commands table: its rows [command, content, mod], oldest first
    cooldown_handlers,  \* main.py:68   command |-> CooldownHandler
    now,                \* time(), in seconds
    mainpc,             \* the main thread: "loop" (in recv, main.py:497), "join" (in
                        \* shut_down, main.py:479), or the process has ended: "crashed"
                        \* (uncaught exception) or "exited"
    lastline,           \* the chat command handled last: [name, words]
    cret,               \* what command_handler returned for it
    nlines,             \* number of chat commands handled
    subs,               \* EventSub topics subscribed at Twitch
    auth_state,         \* os.environ['STATE'], set by authorize
    added,              \* what add_command returned for the chat command handled last
    seen_users,         \* main.py:65   list of the users greeted
    due,                \* the daily job of schedule has reached its time and not run yet
    shut,               \* the steps shut_down has taken, oldest first
    lastmsg,            \* the chat message (no command) handled last: [name, text, n],
                        \* n its number among the lines handled
    dberr,              \* the database is failing: cursor.execute raises sqlite3.Error
    ircmsg,             \* what ircserver.recv returned last (main.py:497), as its fragments
    insend,             \* thread |-> the chunks of the line it is still to write in ircserver.send
    wire,               \* the chunks written to the chat socket, oldest first
    nsent               \* thread |-> number of its calls of sendmsg

hookVars   == << seen_message_ids, conn, last, nreq, posted >>
verifyVars == << vargs, vret >>
cmdVars    == << db, cooldown_handlers, now, mainpc, lastline, cret, nlines,
                 subs, auth_state, added, seen_users, due, shut, lastmsg, dberr,
                 ircmsg >>
sendVars   == << insend, wire, nsent >>
vars       == << seen_message_ids, conn, last, chat, nreq, posted, vargs, vret,
                 db, cooldown_handlers, now, mainpc, lastline, cret, nlines,
                 subs, auth_state, added, seen_users, due, shut, lastmsg, dberr,
                 ircmsg, insend, wire, nsent >>

----------------------------------------------------------------------------
(* Bounds of the model *)

\* webhook requests that arrive in one run
MaxReq == 2
\* connections that may be waiting for, or inside, the handler at once
MaxInFlight == 2
\* chat commands handled in one run
MaxLines == 4
\* the clock stops at this many seconds
MaxTime == 4
\* calls of sendmsg by one thread in one run
MaxSends == 2

----------------------------------------------------------------------------
(* Python values *)

None == << >>
Some(v) == << v >>

\* str.encode(): UTF-8, one byte for an ASCII character, two for U+00E9
Utf8(c) ==
    IF c = "U+00E9" THEN << "0xC3", "0xA9" >> ELSE << c >>

RECURSIVE encode(_)
encode(s) ==
    IF s = << >> THEN << >> ELSE Utf8(Head(s)) \o encode(Tail(s))

\* bool(x) of an optional str header: None and '' are falsy
Truthy(h) == h /= None /\ h[1] /= << >>

Returned(v) == [exc |-> "", value |-> v]
Raised(e) == [exc |-> e, value |-> FALSE]

----------------------------------------------------------------------------
(* helpers.verify_signature *)

\* main.py:54
SECRET == "s3cr3t"
\* main.py:44
CHANNEL == "#chan"

\* hmac.new(key, msg, sha256).hexdigest(): an ideal MAC, equal digests only
\* for equal keys and equal messages.  The id and timestamp bytes are
\* concatenated before hashing, so their boundary is not part of the digest.
hmac_sha256_hex(key, msg) == [key |-> key, msg |-> msg]

\* the signature header, a str: an algorithm prefix followed by hex digits
SigStr(prefix, hex) == [prefix |-> prefix, hex |-> hex]

\* str.removeprefix('sha256=')
removeprefix(sig) ==
    IF sig.prefix = "sha256=" THEN SigStr("", sig.hex) ELSE sig

verify_signature(secret, es_id, es_timestamp, es_body_bytes, es_sig) ==
    IF es_id = None \/ es_timestamp = None
    THEN Raised("AttributeError")
    ELSE LET hmac_msg == [idts |-> encode(es_id[1]) \o encode(es_timestamp[1]),
                          body |-> es_body_bytes]
             calculated_signature == SigStr("", hmac_sha256_hex(secret, hmac_msg))
         IN  IF es_sig = None
             THEN Raised("AttributeError")
             ELSE Returned(calculated_signature = removeprefix(es_sig[1]))

----------------------------------------------------------------------------
(* Webhook requests: the headers do_POST reads and the body *)

\* json.loads(post_data): a body that is no JSON text raises; otherwise the
\* document, of which do_POST reads payload['challenge'] and payload['event'][...]
\* (a key that is absent is None here, and reading it raises KeyError)
Doc(challenge, event) == [wf |-> TRUE, challenge |-> challenge, event |-> event]
Event(user_name, tier, bits, is_anonymous) ==
    [user_name |-> user_name, tier |-> tier, bits |-> bits,
     is_anonymous |-> is_anonymous]

NotJson == [wf |-> FALSE, challenge |-> None, event |-> None]
EmptyDoc == Doc(None, None)
ChallengeAscii == Doc(Some(<< "a", "b", "c", "1", "2", "3" >>), None)
ChallengeWide == Doc(Some(<< "o", "U+00E9" >>), None)
FollowEvent == Doc(None, Some(Event(Some("Ada"), None, None, None)))
SubEvent == Doc(None, Some(Event(Some("Ada"), Some("2000"), None, None)))
CheerNamed == Doc(None, Some(Event(Some("Ada"), None, Some("100"), Some(FALSE))))
CheerAnon == Doc(None, Some(Event(Some("Bob"), None, Some("250"), Some(TRUE))))
CheerNoBits == Doc(None, Some(Event(Some("Ada"), None, None, Some(FALSE))))
NoUserEvent == Doc(None, Some(Event(None, None, None, None)))

json_loads(post_data) ==
    IF post_data.wf THEN Returned(post_data) ELSE Raised("JSONDecodeError")

Request(id, ts, sig, mtype, stype, body) ==
    [id |-> id, ts |-> ts, sig |-> sig, mtype |-> mtype, stype |-> stype,
     body |-> body]

\* Every request is a well-framed HTTP POST: it carries a Content-Length and a
\* UTF-8 body of that length (main.py:197-200 read them before anything else).

\* what the sender signs: HMAC-SHA256 keyed by `key` over id + timestamp + body
Sign(key, prefix, id, ts, body) ==
    Some(SigStr(prefix, hmac_sha256_hex(key, [idts |-> encode(id) \o encode(ts),
                                               body |-> body])))

Ids == { << "a" >>, << "b" >> }
Timestamp == << "1" >>

\* <<Message-Type, Subscription-Type, body>> of the requests the sender signs
Contents ==
    { << Some("webhook_callback_verification"), None, ChallengeAscii >>,
      << Some("webhook_callback_verification"), None, ChallengeWide >>,
      << Some("webhook_callback_verification"), None, EmptyDoc >>,
      << Some("webhook_callback_verification"), None, NotJson >>,
      << Some("notification"), Some("channel.follow"), FollowEvent >>,
      << Some("notification"), Some("channel.follow"), NotJson >>,
      << Some("notification"), Some("channel.subscribe"), SubEvent >>,
      << Some("notification"), Some("channel.subscribe"), FollowEvent >>,
      << Some("notification"), Some("channel.cheer"), CheerNamed >>,
      << Some("notification"), Some("channel.cheer"), CheerAnon >>,
      << Some("notification"), Some("channel.cheer"), CheerNoBits >>,
      << Some("notification"), Some("channel.raid"), FollowEvent >>,
      << Some("notification"), Some("channel.raid"), NoUserEvent >>,
      << Some("notification"), None, FollowEvent >>,
      << Some("revocation"), Some("channel.follow"), EmptyDoc >>,
      << None, None, FollowEvent >> }

SignedRequests ==
    { Request(Some(i), Some(Timestamp),
              Sign(SECRET, "sha256=", i, Timestamp, c[3]), c[1], c[2], c[3]) :
        i \in Ids, c \in Contents }

\* a follow notification with each defect of the authentication headers
AuthVariants ==
    LET i == << "a" >>
    IN  { Request(Some(i), Some(Timestamp), None,
                  Some("notification"), Some("channel.follow"), FollowEvent),
          Request(Some(i), None, Sign(SECRET, "sha256=", i, Timestamp, FollowEvent),
                  Some("notification"), Some("channel.follow"), FollowEvent),
          Request(Some(i), Some(Timestamp), Sign("forged", "sha256=", i, Timestamp, FollowEvent),
                  Some("notification"), Some("channel.follow"), FollowEvent),
          Request(Some(i), Some(Timestamp), Sign(SECRET, "sha1=", i, Timestamp, FollowEvent),
                  Some("notification"), Some("channel.follow"), FollowEvent),
          Request(Some(i), Some(Timestamp), Sign(SECRET, "", i, Timestamp, FollowEvent),
                  Some("notification"), Some("channel.follow"), FollowEvent) }

\* no Twitch-Eventsub-Message-Id header, or an empty one
NoIdRequests ==
    { Request(None, None, None, None, None, NotJson),
      Request(Some(<< >>), Some(Timestamp), None, Some("notification"),
              Some("channel.follow"), FollowEvent) }

Requests == SignedRequests \cup AuthVariants \cup NoIdRequests

NoRequest == Request(None, None, None, None, None, NotJson)

----------------------------------------------------------------------------
(* HTTP responses *)

\* nothing was written to the connection before it was closed
NoResponse == [status |-> 0, ctype |-> "", clen |-> -1, body |-> << >>]

\* RequestHandler._set_response: 200 with a Content-type header and no body
set_response == [status |-> 200, ctype |-> "text/html", clen |-> -1, body |-> << >>]

Forbidden == [status |-> 403, ctype |-> "", clen |-> -1, body |-> << >>]

\* main.py:220-225 with the Content-Length taken from the str, not its bytes
ChallengeResponseChars(eventsub_challenge) ==
    [status |-> 200, ctype |-> "", clen |-> Len(eventsub_challenge),
     body |-> encode(eventsub_challenge)]

\* main.py:220-225: send_response(200); send_header('Content-Length',
\* str(len(challenge_bytes))); wfile.write(challenge_bytes)
ChallengeResponse(eventsub_challenge) ==
    LET challenge_bytes == encode(eventsub_challenge)
    IN  [status |-> 200, ctype |-> "", clen |-> Len(challenge_bytes),
         body |-> challenge_bytes]

\* sendmsg: the line written to ircserver
PrivMsg(msg) == << "PRIVMSG ", CHANNEL, " :" >> \o msg \o << "\r\n" >>

\* main.py:246-249 naming the user whatever the anonymous flag
cheer_message_named(user_name, bits, is_anonymous) ==
    << user_name, " cheered ", bits, " bits! Thank you for the support!" >>

\* main.py:246-249: the text of the cheer announcement
cheer_message(user_name, bits, is_anonymous) ==
    IF is_anonymous = FALSE
    THEN << user_name, " cheered ", bits, " bits! Thank you for the support!" >>
    ELSE << "Anonymous cheered ", bits, " bits! Thank you for the support!" >>

\* int(str) of a tier code; -1 stands for ValueError
int_of(s) ==
    CASE s = "1000" -> 1000 [] s = "2000" -> 2000 [] s = "3000" -> 3000
      [] OTHER -> -1

\* str(int) of a tier number
str_of(n) ==
    CASE n = 1 -> "1" [] n = 2 -> "2" [] n = 3 -> "3" [] OTHER -> "?"

----------------------------------------------------------------------------
(* Chat commands: command, command_handler, CooldownHandler, add_command,
   delete_command *)

\* main.py:48, os.environ['COOLDOWN'] as CooldownHandler.__init__ converts it
COOLDOWN == 2

\* main.py:60: os.environ['MODS'], a str
MODS == << "a", "n", "n", ",", "b", "o" >>

\* Python's `x in y` for two str: x occurs in y as a substring
str_in(x, y) ==
    \E i \in 0 .. (Len(y) - Len(x)) : SubSeq(y, i + 1, i + Len(x)) = x

\* main.py:333 (and 389-433): user in MODS
user_in_mods(user) == str_in(user, MODS)

\* str.lower() of a word
lower(w) ==
    CASE w = "Greet" -> "greet" [] w = "Mod" -> "mod" [] w = "Vip" -> "vip"
      [] OTHER -> w

\* ' '.join(words): the text, as its fragments
RECURSIVE join(_)
join(words) ==
    IF words = << >> THEN << >>
    ELSE IF Len(words) = 1 THEN << words[1] >>
    ELSE << words[1], " " >> \o join(Tail(words))

\* bool(text)
TruthyText(text) == \E k \in DOMAIN text : text[k] /= ""

EmptyTable == << >>

Row(command, content, mod) == [command |-> command, content |-> content, mod |-> mod]

\* cursor.execute('SELECT ... WHERE command = :command'); cursor.fetchone()
\* (main.py:304-307, 325-327): None, or the oldest row of that name.  The
\* comparison is SQLite's default one for text, which tells letter case apart.
fetchone(table, command) ==
    LET hit(r) == r.command = command
        rows == SelectSeq(table, hit)
    IN  IF rows = << >> THEN None ELSE Some(rows[1])

\* CooldownHandler.__init__ (main.py:118-120)
CooldownHandler(command, cooldown, t) ==
    [command |-> command, cooldown |-> cooldown, last_used |-> t]

\* CooldownHandler.is_useable (main.py:122-127) at time t: the answer and the
\* handler afterwards (the two time() reads of one call give the same second)
is_useable(h, t) ==
    IF t > h.cooldown + h.last_used
    THEN [ok |-> TRUE, h |-> [h EXCEPT !.last_used = t]]
    ELSE [ok |-> FALSE, h |-> h]

Handled(ret, handlers) == [ret |-> ret, handlers |-> handlers]

\* command_handler with the cooldown applied before the moderator test
command_handler_cooldown_first(command, user, table, handlers, t) ==
    IF fetchone(table, command) = None
    THEN Handled(None, handlers)
    ELSE LET row == fetchone(table, command)[1]
         IN  IF row.mod = 0 \/ user_in_mods(user)
             THEN IF command \in DOMAIN handlers
                  THEN LET cmd == is_useable(handlers[command], t)
                       IN  Handled(IF cmd.ok THEN Some(row.content) ELSE None,
                                   [handlers EXCEPT ![command] = cmd.h])
                  ELSE Handled(Some(row.content),
                               (command :> CooldownHandler(command, COOLDOWN, t))
                                   @@ handlers)
             ELSE Handled(None, handlers)

\* command_handler (main.py:322-360) at time t: what it returns (None, or the
\* row's content) and cooldown_handlers afterwards
command_handler(command, user, table, handlers, t) ==
    IF fetchone(table, command) = None
    THEN Handled(None, handlers)
    ELSE LET row == fetchone(table, command)[1]
         IN  IF user_in_mods(user)
             THEN Handled(Some(row.content), handlers)
             ELSE IF row.mod = 0
             THEN IF command \in DOMAIN handlers
                  THEN LET cmd == is_useable(handlers[command], t)
                       IN  Handled(IF cmd.ok THEN Some(row.content) ELSE None,
                                   [handlers EXCEPT ![command] = cmd.h])
                  ELSE Handled(Some(row.content),
                               (command :> CooldownHandler(command, COOLDOWN, t))
                                   @@ handlers)
             ELSE Handled(None, handlers)

Looked(exc, ret, handlers) == [exc |-> exc, ret |-> ret, handlers |-> handlers]

\* command_handler letting the sqlite3.Error out
try_command_handler_reraise(command, user, table, handlers, t, fails) ==
    IF fails
    THEN Looked("sqlite3.Error", None, handlers)
    ELSE LET h == command_handler(command, user, table, handlers, t)
         IN  Looked("", h.ret, h.handlers)

\* the try/except of command_handler (main.py:324-360): when cursor.execute
\* (main.py:325) raises sqlite3.Error, None is returned (main.py:358-360)
\* with cooldown_handlers as it was
try_command_handler(command, user, table, handlers, t, fails) ==
    IF fails
    THEN Looked("", None, handlers)
    ELSE LET h == command_handler(command, user, table, handlers, t)
         IN  Looked("", h.ret, h.handlers)

\* add_command without the test for an existing row
add_command_always(splitmsg, table) ==
    IF Len(splitmsg) < 2
    THEN [exc |-> "IndexError", table |-> table, ok |-> FALSE]
    ELSE IF lower(splitmsg[2]) = "mod"
    THEN IF Len(splitmsg) < 3
         THEN [exc |-> "IndexError", table |-> table, ok |-> FALSE]
         ELSE [exc |-> "",
               table |-> Append(table, Row(lower(splitmsg[3]),
                                           join(SubSeq(splitmsg, 4, Len(splitmsg))), 1)),
               ok |-> TRUE]
    ELSE [exc |-> "",
          table |-> Append(table, Row(lower(splitmsg[2]),
                                      join(SubSeq(splitmsg, 3, Len(splitmsg))), 0)),
          ok |-> TRUE]

\* add_command (main.py:283-312) on message.split(' '): IndexError, or the
\* table afterwards and whether the row was inserted
add_command(splitmsg, table) ==
    IF Len(splitmsg) < 2
    THEN [exc |-> "IndexError", table |-> table, ok |-> FALSE]
    ELSE IF lower(splitmsg[2]) = "mod"
    THEN IF Len(splitmsg) < 3
         THEN [exc |-> "IndexError", table |-> table, ok |-> FALSE]
         ELSE LET command == lower(splitmsg[3])
                  content == join(SubSeq(splitmsg, 4, Len(splitmsg)))
              IN  IF fetchone(table, command) = None
                  THEN [exc |-> "", table |-> Append(table, Row(command, content, 1)),
                        ok |-> TRUE]
                  ELSE [exc |-> "", table |-> table, ok |-> FALSE]
    ELSE LET command == lower(splitmsg[2])
             content == join(SubSeq(splitmsg, 3, Len(splitmsg)))
         IN  IF fetchone(table, command) = None
             THEN [exc |-> "", table |-> Append(table, Row(command, content, 0)),
                   ok |-> TRUE]
             ELSE [exc |-> "", table |-> table, ok |-> FALSE]

\* delete_command (main.py:442-450)
delete_command(splitmsg, table) ==
    IF Len(splitmsg) < 2
    THEN [exc |-> "IndexError", table |-> table]
    ELSE LET command == splitmsg[2]
             kept(r) == r.command /= command
         IN  [exc |-> "", table |-> SelectSeq(table, kept)]

\* main.py:63
GREETINGS ==
    { << "h", "i" >>, << "h", "e", "l", "l", "o" >>, << "h", "e", "y", "o" >>,
      << "y", "o" >>, << "h", "e", "y" >>, << "s", "a", "l", "u", "t" >>,
      << "s", "u", "h" >> }

\* str.lower() of a text, character by character
lower_str(text) ==
    [k \in DOMAIN text |->
        CASE text[k] = "H" -> "h" [] text[k] = "I" -> "i" [] text[k] = "Y" -> "y"
          [] text[k] = "O" -> "o" [] OTHER -> text[k]]

\* main.py:514: any(word in message.lower() for word in GREETINGS)
says_hi(message) == \E word \in GREETINGS : str_in(word, lower_str(message))

\* a user who is in no list
user_seen_never(users, name) == FALSE

\* main.py:517: name in seen_users, a list
user_seen(users, name) == \E k \in DOMAIN users : users[k] = name

\* the lines the bot itself composes
ResetNotice == PrivMsg(<< "/me Seen users list cleared!" >>)
Farewell == PrivMsg(<< "/me goes to sleep ResidentSleeper" >>)
Hi(name) == PrivMsg(<< "Hi " >> \o name \o << " :)" >>)

\* the main thread before its first chat line (main.py:65-68, 484-497): the
\* table is open, the daily job is scheduled and not due, recv is waiting
CmdStart ==
    /\ cooldown_handlers = << >>
    /\ now = 0
    /\ mainpc = "loop"
    /\ lastline = [name |-> << >>, words |-> << >>]
    /\ cret = None
    /\ nlines = 0
    /\ subs = {}
    /\ auth_state = ""
    /\ added = None
    /\ seen_users = << >>
    /\ due = FALSE
    /\ shut = << >>
    /\ lastmsg = [name |-> << >>, text |-> << >>, n |-> 0]
    /\ dberr = FALSE
    /\ ircmsg = << >>

\* the send primitive before its first call
SendStart ==
    /\ insend = [t \in { "main", "worker" } |-> << >>]
    /\ wire = << >>
    /\ nsent = [t \in { "main", "worker" } |-> 0]

\* clear_seen_users (main.py:316-318): the list afterwards and the line sent
clear_seen_users == [users |-> << >>, sent |-> << ResetNotice >>]

\* schedule.run_pending() (main.py:496) with the one job of main.py:493: the
\* job runs when its time has been reached
run_pending(users, pending) ==
    IF pending THEN clear_seen_users ELSE [users |-> users, sent |-> << >>]

\* shut_down (main.py:475-480): nuke_eventsubs, the farewell, then
\* thread.join() on the server thread.  run (main.py:264-274) leaves
\* serve_forever only on a KeyboardInterrupt, which is delivered to the main
\* thread alone, and nothing calls httpd.shutdown(): the join does not return
\* and exit(0) is not reached.
shut_down ==
    [topics |-> {}, sent |-> << Farewell >>, pc |-> "join",
     steps |-> << "nuke_eventsubs", "sendmsg" >>]

\* what one call of command leaves behind
Effect(exc, sent, table, pc, topics, state) ==
    [exc |-> exc, sent |-> sent, table |-> table, pc |-> pc, topics |-> topics,
     state |-> state, added |-> None, steps |-> shut]

\* the built-in chain of command (main.py:389-438), reached when
\* command_handler returned None or an empty content
builtin(cmd, name, splitmsg) ==
    LET idle == Effect("", << >>, db, mainpc, subs, auth_state)
    IN  IF cmd = "so" /\ user_in_mods(name)
        THEN IF Len(splitmsg) < 2
             THEN [idle EXCEPT !.exc = "IndexError", !.pc = "crashed"]
             ELSE [idle EXCEPT !.sent =
                      << PrivMsg(<< "Check out ", splitmsg[2],
                                    " at https://twitch.tv/", splitmsg[2], " !" >>) >>]
        ELSE IF cmd = "addcom" /\ user_in_mods(name)
        THEN LET a == add_command(splitmsg, db)
             IN  IF a.exc /= ""
                 THEN [idle EXCEPT !.exc = a.exc, !.pc = "crashed"]
                 ELSE IF dberr   \* cursor.execute (main.py:304) raises
                 THEN [idle EXCEPT !.exc = "sqlite3.Error", !.pc = "crashed"]
                 ELSE [idle EXCEPT !.table = a.table, !.added = Some(a.ok)]
        ELSE IF cmd = "delcom" /\ user_in_mods(name)
        THEN LET d == delete_command(splitmsg, db)
             IN  IF d.exc /= ""
                 THEN [idle EXCEPT !.exc = d.exc, !.pc = "crashed"]
                 ELSE IF dberr   \* cursor.execute (main.py:447) raises
                 THEN [idle EXCEPT !.exc = "sqlite3.Error", !.pc = "crashed"]
                 ELSE [idle EXCEPT !.table = d.table]
        ELSE IF cmd = "esfollow" /\ user_in_mods(name)
        THEN [idle EXCEPT !.topics = subs \cup { "channel.follow" }]
        ELSE IF cmd = "essub" /\ user_in_mods(name)
        THEN [idle EXCEPT !.topics = subs \cup { "channel.subscribe", "channel.cheer" }]
        ELSE IF cmd = "nukeeventsubs" /\ user_in_mods(name)
        THEN [idle EXCEPT !.topics = {}]
        ELSE IF cmd = "disconnect" /\ user_in_mods(name)
        THEN \* dbconnection.close(); shut_down()
             [idle EXCEPT !.topics = shut_down.topics, !.sent = shut_down.sent,
                          !.pc = shut_down.pc, !.steps = shut_down.steps]
        ELSE IF cmd = "auth" /\ user_in_mods(name)
        THEN [idle EXCEPT !.state = "token"]
        ELSE idle

\* the process is running: the main thread has not ended (the server thread
\* is a daemon thread, main.py:279, and ends with it)
ProcessAlive == mainpc \in { "loop", "join" }

\* the loop goes round (main.py:495-497): the pending job runs, then recv waits
LoopAgain(pc, sent) ==
    LET job == IF pc = "loop" THEN run_pending(seen_users, due)
               ELSE [users |-> seen_users, sent |-> << >>]
    IN  /\ seen_users' = job.users
        /\ due' = (due /\ pc /= "loop")
        /\ chat' = chat \o sent \o job.sent

\* command(message, name, ...) (main.py:365-438), where splitmsg is
\* message[1:].split(' '), and then the loop going round
command(name, splitmsg) ==
    /\ mainpc = "loop"
    /\ nlines < MaxLines
    /\ LET cmd == splitmsg[1]
           h == try_command_handler(cmd, name, db, cooldown_handlers, now, dberr)
           e == IF h.exc /= ""
                THEN Effect(h.exc, << >>, db, "crashed", subs, auth_state)
                ELSE IF h.ret /= None /\ TruthyText(h.ret[1])
                THEN Effect("", << PrivMsg(h.ret[1]) >>, db, mainpc, subs, auth_state)
                ELSE builtin(cmd, name, splitmsg)
       IN  /\ cooldown_handlers' = h.handlers
           /\ cret' = h.ret
           /\ db' = e.table
           /\ mainpc' = e.pc
           /\ subs' = e.topics
           /\ auth_state' = e.state
           /\ added' = e.added
           /\ shut' = e.steps
           /\ LoopAgain(e.pc, e.sent)
    /\ lastline' = [name |-> name, words |-> splitmsg]
    /\ nlines' = nlines + 1
    /\ UNCHANGED << now, lastmsg, dberr, hookVars, verifyVars, sendVars >>

\* One round of the loop of main (main.py:495-519) on a line with PRIVMSG
\* whose text starts with "!", given as the sender and the words of the text
Command(name, splitmsg) ==
    /\ command(name, splitmsg)
    /\ UNCHANGED ircmsg

\* main.py:510-519 on a text that is no command, and then the loop going
\* round: message[0] raises IndexError on an empty text; a text with a
\* greeting word from a user not in seen_users is answered
privmsg(name, message) ==
    /\ mainpc = "loop"
    /\ nlines < MaxLines
    /\ (IF message = << >> THEN TRUE ELSE message[1] /= "!")
    /\ IF message = << >>
       THEN /\ mainpc' = "crashed"
            /\ UNCHANGED << seen_users, due, chat >>
       ELSE /\ mainpc' = mainpc
            /\ IF says_hi(message) /\ ~user_seen(seen_users, name)
               THEN LET job == run_pending(Append(seen_users, name), due)
                    IN  /\ seen_users' = job.users
                        /\ chat' = chat \o << Hi(name) >> \o job.sent
               ELSE LET job == run_pending(seen_users, due)
                    IN  /\ seen_users' = job.users
                        /\ chat' = chat \o job.sent
            /\ due' = FALSE
    /\ lastmsg' = [name |-> name, text |-> message, n |-> nlines + 1]
    /\ nlines' = nlines + 1
    /\ UNCHANGED << db, cooldown_handlers, now, lastline, cret, subs, auth_state,
                    added, shut, dberr, hookVars, verifyVars, sendVars >>

\* One round of the loop on a line with PRIVMSG whose text is no command,
\* given as the sender and the text
Privmsg(name, message) ==
    /\ privmsg(name, message)
    /\ UNCHANGED ircmsg

\* the clock reaches 00:00: the job of main.py:493 becomes pending
Midnight ==
    /\ ProcessAlive
    /\ ~due
    /\ due' = TRUE
    /\ UNCHANGED << db, cooldown_handlers, now, mainpc, lastline, cret, nlines, subs,
                    auth_state, added, seen_users, shut, lastmsg, dberr, ircmsg, chat,
                    hookVars, verifyVars, sendVars >>

\* ircserver.recv (main.py:497) raises OSError: main has no handler for it and
\* __main__ (main.py:527-532) catches KeyboardInterrupt only, so the main
\* thread, and with it the process, ends
RecvFails ==
    /\ mainpc = "loop"
    /\ mainpc' = "crashed"
    /\ UNCHANGED << db, cooldown_handlers, now, lastline, cret, nlines, subs,
                    auth_state, added, seen_users, due, shut, lastmsg, dberr, ircmsg,
                    chat, hookVars, verifyVars, sendVars >>

\* KeyboardInterrupt in the main thread.  In the loop: __main__ calls
\* shut_down (main.py:531-532).  In thread.join() of shut_down: nothing
\* catches it and the process ends.
Interrupt ==
    /\ ProcessAlive
    /\ IF mainpc = "loop"
       THEN /\ mainpc' = shut_down.pc
            /\ subs' = shut_down.topics
            /\ chat' = chat \o shut_down.sent
            /\ shut' = shut_down.steps
       ELSE /\ mainpc' = "exited"
            /\ UNCHANGED << subs, chat, shut >>
    /\ UNCHANGED << db, cooldown_handlers, now, lastline, cret, nlines, auth_state,
                    added, seen_users, due, lastmsg, dberr, ircmsg, hookVars,
                    verifyVars, sendVars >>

\* str.find(sub) != -1, on fragments: the fragment occurs
found(str, sub) == \E k \in DOMAIN str : str[k] = sub

\* str.split(sep, 1): the parts before and after the first sep, or the whole
split1(str, sep) ==
    IF found(str, sep)
    THEN LET k == CHOOSE i \in DOMAIN str :
                      str[i] = sep /\ \A j \in 1 .. (i - 1) : str[j] /= sep
         IN  << SubSeq(str, 1, k - 1), SubSeq(str, k + 1, Len(str)) >>
    ELSE << str >>

\* str.strip(chars): fragments of `chars` taken off both ends
RECURSIVE strip(_, _)
strip(str, chars) ==
    IF str = << >> THEN str
    ELSE IF str[1] \in chars THEN strip(Tail(str), chars)
    ELSE IF str[Len(str)] \in chars THEN strip(SubSeq(str, 1, Len(str) - 1), chars)
    ELSE str

\* what str.strip() takes off
Whitespace == { " ", "\r\n" }

\* a word of several fragments: none of the command names
Glued == "(several fragments)"

\* str.split(' '): the words between the blanks ('' between two blanks)
RECURSIVE split(_)
split(str) ==
    LET parts == split1(str, " ")
        word == IF parts[1] = << >> THEN ""
                ELSE IF Len(parts[1]) = 1 THEN parts[1][1] ELSE Glued
    IN  IF Len(parts) = 1 THEN << word >> ELSE << word >> \o split(parts[2])

\* main.py:505-506: name and message of a read that holds PRIVMSG; the [1]
\* of a split that found no separator raises IndexError
parse(str) ==
    LET first == split1(str, "!")[1]
        name == strip(SubSeq(first, 2, Len(first)), Whitespace)
        rest == split1(str, "PRIVMSG")[2]
    IN  IF Len(split1(rest, ":")) < 2
        THEN [exc |-> "IndexError", name |-> name, message |-> << >>]
        ELSE [exc |-> "", name |-> name,
              message |-> strip(split1(rest, ":")[2], Whitespace)]

\* main.py:523
Pong == << "PONG :tmi.twitch.tv", "\r\n" >>

\* a round of the loop that calls neither command nor the greeting: an
\* exception before them (pc "crashed"), a ping answered, a line ignored
other(pc, sent) ==
    /\ mainpc' = pc
    /\ LoopAgain(pc, sent)
    /\ nlines' = nlines + 1
    /\ UNCHANGED << db, cooldown_handlers, now, lastline, cret, subs, auth_state,
                    added, shut, lastmsg, dberr, hookVars, verifyVars, sendVars >>

\* One round of the loop of main (main.py:495-524) on what recv returned:
\* one line or several lines of the chat server
Recv(read) ==
    /\ mainpc = "loop"
    /\ nlines < MaxLines
    /\ ircmsg' = read
    /\ LET str == strip(read, { "n", "r" })
       IN  IF found(str, "PRIVMSG")
           THEN LET p == parse(str)
                IN  IF p.exc /= ""
                    THEN other("crashed", << >>)
                    ELSE IF p.message = << >>
                    THEN privmsg(p.name, p.message)
                    ELSE IF p.message[1] = "!"
                    THEN command(p.name, split(Tail(p.message)))
                    ELSE privmsg(p.name, p.message)
           ELSE IF found(str, "PING")
           THEN other("loop", << Pong >>)
           ELSE other("loop", << >>)

\* the database starts, or stops, failing (the file is locked, the disk full)
DbFault ==
    /\ mainpc = "loop"
    /\ dberr' = ~dberr
    /\ UNCHANGED << db, cooldown_handlers, now, mainpc, lastline, cret, nlines, subs,
                    auth_state, added, seen_users, due, shut, lastmsg, ircmsg, chat,
                    hookVars, verifyVars, sendVars >>

\* a second passes
Tick ==
    /\ now < MaxTime
    /\ now' = now + 1
    /\ UNCHANGED << db, cooldown_handlers, mainpc, lastline, cret, nlines, subs,
                    auth_state, added, seen_users, due, shut, lastmsg, dberr, ircmsg,
                    chat, hookVars, verifyVars, sendVars >>

----------------------------------------------------------------------------
(* RequestHandler.do_POST *)

Slots == 1 .. MaxInFlight

Outcome(exc, resp, sent) == [exc |-> exc, resp |-> resp, sent |-> sent]

\* main.py:216-252, the request verified and its id appended: what is written
\* to the connection, the lines given to sendmsg, and the exception that ended
\* the handler ("" when it returned)
Process(r) ==
    LET loaded == json_loads(r.body)
        payload == loaded.value
    IN  IF loaded.exc /= ""
        THEN Outcome(loaded.exc, NoResponse, << >>)
        ELSE IF r.mtype = Some("webhook_callback_verification")
        THEN IF payload.challenge = None
             THEN Outcome("KeyError", NoResponse, << >>)
             ELSE Outcome("", ChallengeResponse(payload.challenge[1]), << >>)
        ELSE IF r.mtype = Some("notification")
        THEN IF payload.event = None \/ payload.event[1].user_name = None
             THEN Outcome("KeyError", NoResponse, << >>)
             ELSE LET event == payload.event[1]
                      user_name == event.user_name[1]
                  IN  IF r.stype = Some("channel.follow")
                      THEN Outcome("", set_response,
                              << PrivMsg(<< "Thank you for following ", user_name, "!" >>) >>)
                      ELSE IF r.stype = Some("channel.subscribe")
                      THEN IF event.tier = None
                           THEN Outcome("KeyError", NoResponse, << >>)
                           ELSE IF int_of(event.tier[1]) < 0
                           THEN Outcome("ValueError", NoResponse, << >>)
                           ELSE LET sub_tier == int_of(event.tier[1]) \div 1000
                                IN  Outcome("", set_response,
                                      << PrivMsg(<< user_name, " subscribed at tier ",
                                                    str_of(sub_tier),
                                                    "! Thank you for the support!" >>) >>)
                      ELSE IF r.stype = Some("channel.cheer")
                      THEN IF event.bits = None \/ event.is_anonymous = None
                           THEN Outcome("KeyError", NoResponse, << >>)
                           ELSE Outcome("", set_response,
                                  << PrivMsg(cheer_message(user_name, event.bits[1],
                                                           event.is_anonymous[1])) >>)
                      ELSE Outcome("", NoResponse, << >>)
        ELSE Outcome("", NoResponse, << >>)

Exchange(req, branch, out) ==
    [req |-> req, branch |-> branch, exc |-> out.exc, resp |-> out.resp,
     sent |-> out.sent]

\* HTTPServer.serve_forever handles one request at a time (run hands
\* server_class=HTTPServer, not a threading server): a connection is accepted
\* only when no handler is running
ServerThreaded == TRUE

ServerIdle == \A t \in Slots : conn[t].st /= "handler"

\* main.py:209 with the test left out
message_id_seen_never(ids, message_id) == FALSE

\* main.py:209: message_id in seen_message_ids
message_id_seen(ids, message_id) ==
    \E k \in 1 .. Len(ids) : ids[k] = message_id

\* a request reaches the listening socket (connections are interchangeable:
\* it takes the first free one)
Arrive(s, r) ==
    /\ ProcessAlive
    /\ conn[s].st = "free"
    /\ \A t \in Slots : t < s => conn[t].st /= "free"
    /\ nreq < MaxReq
    /\ conn' = [conn EXCEPT ![s] = [st |-> "queued", req |-> r]]
    /\ nreq' = nreq + 1
    /\ UNCHANGED << seen_message_ids, last, chat, posted, verifyVars, cmdVars, sendVars >>

\* main.py:197-212: read the headers and the body; without a message id answer
\* 200 (259-261); with an id already in seen_message_ids answer 200 (209-211);
\* otherwise go on to the signature check
Accept(s) ==
    /\ ProcessAlive
    /\ conn[s].st = "queued"
    /\ ServerIdle
    /\ LET r == conn[s].req
       IN  IF ~Truthy(r.id)
           THEN /\ last' = Exchange(r, "noid",
                      Outcome("", [set_response EXCEPT
                                     !.body = << "POST request for ", "/" >>], << >>))
                /\ conn' = [conn EXCEPT ![s] = [st |-> "free", req |-> NoRequest]]
           ELSE IF message_id_seen(seen_message_ids, r.id[1])
           THEN /\ last' = Exchange(r, "duplicate", Outcome("", set_response, << >>))
                /\ conn' = [conn EXCEPT ![s] = [st |-> "free", req |-> NoRequest]]
           ELSE /\ conn' = [conn EXCEPT ![s].st = "handler"]
                /\ UNCHANGED last
    /\ posted' = IF Truthy(conn[s].req.id) THEN posted \cup {conn[s].req.id[1]} ELSE posted
    /\ UNCHANGED << seen_message_ids, chat, nreq, verifyVars, cmdVars, sendVars >>

\* main.py:214-257: verify_signature; when it is True append the id and act on
\* the message (216-252), when it is False answer 403, when it raises the
\* connection is closed with nothing written (socketserver logs the exception
\* and serves on)
Finish(s) ==
    /\ ProcessAlive
    /\ conn[s].st = "handler"
    /\ LET r == conn[s].req
           v == verify_signature(SECRET, r.id, r.ts, r.body, r.sig)
       IN  IF v.exc /= ""
           THEN /\ last' = Exchange(r, "raised", Outcome(v.exc, NoResponse, << >>))
                /\ UNCHANGED << seen_message_ids, chat >>
           ELSE IF v.value = TRUE
           THEN /\ seen_message_ids' = Append(seen_message_ids, r.id[1])
                /\ last' = Exchange(r, "verified", Process(r))
                /\ chat' = chat \o Process(r).sent
           ELSE /\ last' = Exchange(r, "forbidden", Outcome("", Forbidden, << >>))
                /\ UNCHANGED << seen_message_ids, chat >>
    /\ conn' = [conn EXCEPT ![s] = [st |-> "free", req |-> NoRequest]]
    /\ UNCHANGED << nreq, posted, verifyVars, cmdVars, sendVars >>

NoExchange == Exchange(NoRequest, "none", Outcome("", NoResponse, << >>))

\* main.py:79 and the server before its first request
HookStart ==
    /\ seen_message_ids = << >>
    /\ conn = [s \in Slots |-> [st |-> "free", req |-> NoRequest]]
    /\ last = NoExchange
    /\ nreq = 0
    /\ posted = {}

InitHook ==
    /\ HookStart
    /\ chat = << >>
    /\ vargs = None
    /\ vret = None
    /\ CmdStart
    /\ SendStart
    /\ db = EmptyTable

NextHook ==
    \/ \E s \in Slots, r \in Requests : Arrive(s, r)
    \/ \E s \in Slots : Accept(s)
    \/ \E s \in Slots : Finish(s)

\* the webhook server alone
SpecHook == InitHook /\ [][NextHook]_vars

----------------------------------------------------------------------------
(* A direct call of verify_signature, on arguments any of which may be None *)

Keys == { SECRET, "forged" }
Prefixes == { "sha256=", "sha1=", "" }
VerifyBodies == { NotJson, FollowEvent, ChallengeAscii }

VerifyArgs ==
    [secret : Keys,
     es_id : {None} \cup { Some(i) : i \in Ids },
     es_timestamp : { None, Some(Timestamp) },
     es_body_bytes : VerifyBodies,
     es_sig : {None} \cup { Sign(k, p, i, Timestamp, b) :
                               k \in Keys, p \in Prefixes, i \in Ids,
                               b \in VerifyBodies }]

InitVerify ==
    /\ HookStart
    /\ chat = << >>
    /\ CmdStart
    /\ SendStart
    /\ db = EmptyTable
    /\ vargs \in { Some(a) : a \in VerifyArgs }
    /\ vret = None

CallVerify ==
    /\ vargs /= None
    /\ vret = None
    /\ vret' = Some(verify_signature(vargs[1].secret, vargs[1].es_id,
                                     vargs[1].es_timestamp, vargs[1].es_body_bytes,
                                     vargs[1].es_sig))
    /\ UNCHANGED << hookVars, chat, vargs, cmdVars, sendVars >>

NextVerify == CallVerify

\* verify_signature as a function of its arguments
SpecVerify == InitVerify /\ [][NextVerify]_vars

----------------------------------------------------------------------------
(* The chat loop handing commands to command(), with the clock running *)

\* senders: a moderator named in MODS, a viewer whose name is a fragment of
\* that moderator's name, and a viewer
Ann == << "a", "n", "n" >>
An == << "a", "n" >>
Zed == << "z", "e", "d" >>
Users == { Ann, An, Zed }

\* a table an earlier run of the bot left in the database file
StockTable ==
    << Row("greet", << "Hello", " ", "there!" >>, 0),
       Row("vip", << "Secret" >>, 1) >>

CooldownLines ==
    { << "greet" >>,
      << "vip" >>,
      << "addcom", "greet", "Hello", "there!" >>,
      << "addcom", "mod", "vip", "Secret" >>,
      << "delcom", "greet" >> }

InitCmd ==
    /\ HookStart
    /\ chat = << >>
    /\ vargs = None
    /\ vret = None
    /\ CmdStart
    /\ SendStart
    /\ db \in { EmptyTable, StockTable }

NextCmd ==
    \/ \E name \in Users, splitmsg \in CooldownLines : Command(name, splitmsg)
    \/ Tick

\* stored commands and their cooldowns
SpecCmd == InitCmd /\ [][NextCmd]_vars

----------------------------------------------------------------------------
(* The chat loop handing commands to command(): stored commands, the built-in
   names and the spelling of names *)

AdminLines ==
    { << "greet" >>,
      << "Greet" >>,
      << "vip" >>,
      << "addcom", "greet", "Howdy" >>,
      << "addcom", "so", "Hi" >>,
      << "delcom", "Greet" >>,
      << "delcom", "greet" >>,
      << "so", "Ada" >>,
      << "esfollow" >>,
      << "essub" >>,
      << "nukeeventsubs" >>,
      << "disconnect" >>,
      << "auth" >> }

InitAdmin == InitCmd

NextAdmin == \E name \in Users, splitmsg \in AdminLines : Command(name, splitmsg)

SpecAdmin == InitAdmin /\ [][NextAdmin]_vars

----------------------------------------------------------------------------
(* The chat loop of main on what the chat server sends *)

\* a channel message as the server sends it
ChatLine(name, text) ==
    << ":" >> \o name \o << "!", "user@host", " ", "PRIVMSG", " ", CHANNEL, " ", ":" >>
        \o text \o << "\r\n" >>

PingLine == << "PING", " ", ":", "tmi.twitch.tv", "\r\n" >>

JoinLine == << ":", "z", "e", "d", "!", "user@host", " ", "JOIN", " ", CHANNEL, "\r\n" >>

\* a line with PRIVMSG and no ":" after it
NoSeparatorLine == << ":", "tmi.twitch.tv", " ", "PRIVMSG", " ", CHANNEL, "\r\n" >>

Reads ==
    { PingLine,
      JoinLine,
      NoSeparatorLine,
      ChatLine(Zed, << "H", "i" >>),
      ChatLine(Zed, << "PING", " ", "m", "e" >>),
      ChatLine(Zed, << >>),
      ChatLine(Zed, << "!", "greet" >>),
      ChatLine(Ann, << "!", "so" >>),
      ChatLine(Ann, << "!", "so", " ", "Ada" >>),
      ChatLine(Ann, << "!", "disconnect" >>),
      PingLine \o ChatLine(Zed, << "o", "k" >>),
      ChatLine(Zed, << "H", "i" >>) \o PingLine }

InitRead == InitCmd

NextRead == \E read \in Reads : Recv(read)

SpecRead == InitRead /\ [][NextRead]_vars

----------------------------------------------------------------------------
(* Commands while the database fails now and then *)

StoreLines ==
    { << "greet" >>, << "vip" >>, << "nope" >>, << "so", "Ada" >>,
      << "addcom", "hey", "Hey!" >> }

InitStore == InitCmd

NextStore ==
    \/ \E name \in { Ann, Zed }, splitmsg \in StoreLines : Command(name, splitmsg)
    \/ DbFault

SpecStore == InitStore /\ [][NextStore]_vars

----------------------------------------------------------------------------
(* A moderator giving stored commands the names of built-in commands *)

ShadowLines ==
    { << "greet" >>,
      << "addcom", "delcom", "Gone" >>,
      << "addcom", "addcom", "Full" >>,
      << "addcom", "hey", "Hey!" >>,
      << "delcom", "delcom" >>,
      << "delcom", "addcom" >>,
      << "delcom", "greet" >> }

InitShadow == InitCmd

NextShadow == \E name \in { Ann, Zed }, splitmsg \in ShadowLines : Command(name, splitmsg)

SpecShadow == InitShadow /\ [][NextShadow]_vars

----------------------------------------------------------------------------
(* The chat loop of main: commands, messages, the daily job, the ways out *)

BotUsers == { Ann, Zed }

BotLines == { << "greet" >>, << "disconnect" >> }

\* chat messages: one that greets, one that does not
BotMessages == { << "H", "i" >>, << "o", "k" >> }

InitLoop ==
    /\ HookStart
    /\ chat = << >>
    /\ vargs = None
    /\ vret = None
    /\ CmdStart
    /\ SendStart
    /\ db = StockTable

NextLoop ==
    \/ \E name \in BotUsers, splitmsg \in BotLines : Command(name, splitmsg)
    \/ \E name \in BotUsers, message \in BotMessages : Privmsg(name, message)
    \/ Midnight
    \/ RecvFails
    \/ Interrupt

SpecLoop == InitLoop /\ [][NextLoop]_vars

----------------------------------------------------------------------------
(* The whole process: the chat loop of main and the webhook server thread *)

\* a webhook request: a signed follow notification
BotRequests ==
    { Request(Some(<< "a" >>), Some(Timestamp),
              Sign(SECRET, "sha256=", << "a" >>, Timestamp, FollowEvent),
              Some("notification"), Some("channel.follow"), FollowEvent) }

InitBot == InitLoop

NextBot ==
    \/ Command(Ann, << "disconnect" >>)
    \/ Privmsg(Zed, << "H", "i" >>)
    \/ Midnight
    \/ RecvFails
    \/ Interrupt
    \/ \E s \in Slots, r \in BotRequests : Arrive(s, r)
    \/ \E s \in Slots : Accept(s)
    \/ \E s \in Slots : Finish(s)

SpecBot == InitBot /\ [][NextBot]_vars

----------------------------------------------------------------------------
(* sendmsg called from the main thread and from the server thread.  Elsewhere
   in this module a call of sendmsg puts its line on the socket in one step;
   here the call is followed through ircserver.send. *)

Threads == { "main", "worker" }

\* the lines a thread gives to sendmsg: the main thread a greeting
\* (main.py:518) or the reset notice (main.py:318, run by schedule.run_pending
\* in the main thread), the server thread its thanks (main.py:234)
SendLines(t) ==
    IF t = "main" THEN { Hi(Zed), ResetNotice }
    ELSE { PrivMsg(<< "Thank you for following ", "Ada", "!" >>) }

\* sendmsg (main.py:470-471) is entered: the line is formatted and handed to
\* ircserver.send.  Nothing is locked: a thread enters whatever the other does.
SendEnter(t, line) ==
    /\ insend[t] = << >>
    /\ nsent[t] < MaxSends
    /\ insend' = [insend EXCEPT ![t] = line]
    /\ nsent' = [nsent EXCEPT ![t] = @ + 1]
    /\ UNCHANGED << wire, chat, hookVars, verifyVars, cmdVars >>

\* the fragments "PRIVMSG ", target, " :" that start every line
HeaderLen == Len(PrivMsg(<< >>)) - 1

\* ircserver.send (main.py:471) puts the next k fragments of the buffer on the
\* socket: all that are left, or, when the socket takes just a part now, the
\* header of the line first
SendWrite(t, k) ==
    /\ insend[t] /= << >>
    /\ k = Len(insend[t]) \/ (k = HeaderLen /\ k < Len(insend[t]))
    /\ wire' = wire \o SubSeq(insend[t], 1, k)
    /\ insend' = [insend EXCEPT ![t] = SubSeq(@, k + 1, Len(@))]
    /\ UNCHANGED << nsent, chat, hookVars, verifyVars, cmdVars >>

InitSend == InitLoop

NextSend ==
    \/ \E t \in Threads : \E line \in SendLines(t) : SendEnter(t, line)
    \/ \E t \in Threads, k \in 1 .. Len(Hi(Zed)) : SendWrite(t, k)

SpecSend == InitSend /\ [][NextSend]_vars

\* The same with the steps the process takes by itself taken eventually: the
\* server thread serves every connection it has.  Every step of the main
\* thread waits for its input (a line on the chat socket, a signal), and no
\* input is bound to come.
FairBot ==
    /\ SpecBot
    /\ WF_vars(\E s \in Slots : Accept(s))
    /\ WF_vars(\E s \in Slots : Finish(s))

----------------------------------------------------------------------------
(* Vocabulary of the claims *)

Range(f) == { f[k] : k \in DOMAIN f }

\* x is in the seen set
Marked(x) == x \in Range(seen_message_ids)

\* the presented signature is the HMAC-SHA256 of id + timestamp + body under SECRET
SignatureVerifies(r) ==
    verify_signature(SECRET, r.id, r.ts, r.body, r.sig) = Returned(TRUE)

\* the handler has finished a request that was not a duplicate and verified
VerifiedFresh == last.branch = "verified" /\ SignatureVerifies(last.req)

KnownSubscriptions ==
    { Some("channel.follow"), Some("channel.subscribe"), Some("channel.cheer") }

\* the body lacks a field the handler reads for this kind of message
LacksFields(r) ==
    \/ r.mtype = Some("webhook_callback_verification") /\ r.body.challenge = None
    \/ /\ r.mtype = Some("notification")
       /\ \/ r.body.event = None
          \/ r.body.event[1].user_name = None
          \/ r.stype = Some("channel.subscribe") /\ r.body.event[1].tier = None
          \/ /\ r.stype = Some("channel.cheer")
             /\ \/ r.body.event[1].bits = None
                \/ r.body.event[1].is_anonymous = None

\* a required header is missing, or the body is no JSON or lacks fields
Malformed(r) ==
    \/ r.id = None \/ r.ts = None \/ r.sig = None \/ r.mtype = None
    \/ ~r.body.wf
    \/ LacksFields(r)

RECURSIVE ByteLength(_)
ByteLength(str) ==
    IF str = << >> THEN 0
    ELSE (IF Head(str) = "U+00E9" THEN 2 ELSE 1) + ByteLength(Tail(str))

----------------------------------------------------------------------------
(* C1..C8: the webhook handler *)

\* C1 (replay safety): in every step, (1) a POST carrying an id that no
\* earlier POST carried is not answered as a duplicate but goes on to the
\* signature check; (2) an id in the seen set stays in it; (3) a POST carrying
\* an id in the seen set is answered 200 by the duplicate branch, with nothing
\* sent to chat and the seen set unchanged.
C1_ReplaySafety ==
    [][ /\ \A s \in Slots :
             ( /\ conn[s].st = "queued" /\ conn'[s].st /= "queued"
               /\ Truthy(conn[s].req.id)
               /\ conn[s].req.id[1] \notin posted )
             => conn'[s].st = "handler"
        /\ \A x \in Ids : Marked(x) => Marked(x)'
        /\ \A s \in Slots :
             ( /\ conn[s].st = "queued" /\ conn'[s].st /= "queued"
               /\ Truthy(conn[s].req.id)
               /\ Marked(conn[s].req.id[1]) )
             => /\ conn'[s].st = "free"
                /\ last'.req = conn[s].req
                /\ last'.branch = "duplicate"
                /\ last'.resp.status = 200
                /\ last'.sent = << >>
                /\ UNCHANGED << seen_message_ids, chat >>
      ]_vars

\* a POST whose id had been marked by an earlier verified POST got its 200
C1_Witness ==
    /\ last.branch = "duplicate"
    /\ last.resp.status = 200
    /\ Marked(last.req.id[1])
    /\ SignatureVerifies(last.req)

\* C2 (no double processing under concurrent delivery): at most one request
\* is between the duplicate check and the mark at any time, no id is appended
\* to the seen list twice, and the announcements never outnumber the ids
\* marked, so no id is announced twice.
C2_OneProcessingPerId ==
    /\ \A s, t \in Slots :
         conn[s].st = "handler" /\ conn[t].st = "handler" => s = t
    /\ \A j, k \in DOMAIN seen_message_ids :
         seen_message_ids[j] = seen_message_ids[k] => j = k
    /\ Len(chat) <= Len(seen_message_ids)

\* two verifiable requests with the same id in flight, one past the check
C2_Witness ==
    \E s, t \in Slots :
        /\ s /= t
        /\ conn[s].st = "handler" /\ conn[t].st = "queued"
        /\ conn[s].req.id = conn[t].req.id
        /\ SignatureVerifies(conn[s].req) /\ SignatureVerifies(conn[t].req)

\* C3 (as claimed): a finished POST whose id was not in the seen set and whose
\* signature does not verify was answered 403, sent nothing to chat and left
\* its id unmarked.
C3_UnverifiedIs403 ==
    ( /\ last.branch \in { "forbidden", "raised", "verified" }
      /\ ~SignatureVerifies(last.req) )
    => /\ last.resp.status = 403
       /\ last.sent = << >>
       /\ ~Marked(last.req.id[1])

\* C4 (as claimed, for a well-formed event): a verified, not-yet-seen
\* notification of a subscription type other than follow, subscribe and cheer
\* was answered 200 and sent nothing to chat.
C4_UnknownSubscriptionIs200 ==
    ( /\ VerifiedFresh
      /\ last.req.mtype = Some("notification")
      /\ last.req.stype /= None
      /\ last.req.stype \notin KnownSubscriptions
      /\ ~Malformed(last.req) )
    => /\ last.resp.status = 200
       /\ last.sent = << >>

\* C5 (as claimed): a finished POST with a malformed payload was answered 200
\* and sent nothing to chat.  (Stated for the requests that did not fail
\* authentication; an absent or wrong signature or timestamp is C3's case.)
C5_MalformedIs200 ==
    ( /\ last.branch \in { "noid", "duplicate", "verified" }
      /\ Malformed(last.req) )
    => /\ last.resp.status = 200
       /\ last.sent = << >>

\* C6 (as claimed): a call of verify_signature returns (never raises), and
\* returns False when the id, the timestamp or the signature is absent.
C6_VerifyTotal ==
    vret /= None
    => /\ vret[1].exc = ""
       /\ ( \/ vargs[1].es_id = None
            \/ vargs[1].es_timestamp = None
            \/ vargs[1].es_sig = None ) => vret[1].value = FALSE

\* C7 (challenge echo): a verified, not-yet-seen webhook_callback_verification
\* POST whose body carries a challenge was answered 200 with the challenge's
\* UTF-8 bytes as the body and their number as Content-Length, and sent
\* nothing to chat.
C7_ChallengeEcho ==
    ( /\ VerifiedFresh
      /\ last.req.mtype = Some("webhook_callback_verification")
      /\ last.req.body.wf
      /\ last.req.body.challenge /= None )
    => /\ last.resp.status = 200
       /\ last.resp.body = encode(last.req.body.challenge[1])
       /\ last.resp.clen = ByteLength(last.req.body.challenge[1])
       /\ last.sent = << >>

\* the challenge with a two-byte character was echoed
C7_Witness ==
    /\ VerifiedFresh
    /\ last.req.mtype = Some("webhook_callback_verification")
    /\ last.req.body = ChallengeWide
    /\ last.resp.status = 200

\* C8 (cheer announcement): a verified, not-yet-seen cheer notification whose
\* event carries user_name, bits and is_anonymous was answered 200 and put
\* exactly one line on the chat socket: "<user> cheered <bits> bits! Thank you
\* for the support!" when is_anonymous is false, and otherwise a line with the
\* bits amount and without the payload's user name.
C8_CheerAnnounced ==
    ( /\ VerifiedFresh
      /\ last.req.mtype = Some("notification")
      /\ last.req.stype = Some("channel.cheer")
      /\ last.req.body.wf
      /\ ~LacksFields(last.req) )
    => LET event == last.req.body.event[1]
       IN  /\ last.resp.status = 200
           /\ Len(last.sent) = 1
           /\ chat /= << >> /\ chat[Len(chat)] = last.sent[1]
           /\ event.is_anonymous[1] = FALSE =>
                last.sent[1] = << "PRIVMSG ", CHANNEL, " :", event.user_name[1],
                                  " cheered ", event.bits[1],
                                  " bits! Thank you for the support!", "\r\n" >>
           /\ event.is_anonymous[1] = TRUE =>
                /\ event.bits[1] \in Range(last.sent[1])
                /\ event.user_name[1] \notin Range(last.sent[1])

\* an anonymous cheer was announced
C8_Witness ==
    /\ VerifiedFresh
    /\ last.req.stype = Some("channel.cheer")
    /\ last.req.body = CheerAnon
    /\ Len(last.sent) = 1
    /\ last.resp.status = 200

----------------------------------------------------------------------------
(* C9, C10: cooldowns and elevated senders *)

\* the static privileged-user set: the names configured in MODS
Privileged == { << "a", "n", "n" >>, << "b", "o" >> }

\* CommandStore holds a record named cmd; the oldest such record
Stored(cmd) == \E k \in DOMAIN db : db[k].command = cmd
Record(cmd) == db[CHOOSE k \in DOMAIN db :
                     /\ db[k].command = cmd
                     /\ \A j \in 1 .. (k - 1) : db[j].command /= cmd]

\* this step handled a chat command
CommandStep == nlines' = nlines + 1

\* ... sent by `name`, invoking `cmd`
Sender == lastline'.name
Invoked == lastline'.words[1]

\* the cooldown semantics of one use of stored command cmd at time `now`
CooldownSemantics(cmd) ==
    IF cmd \notin DOMAIN cooldown_handlers
    THEN /\ cret' = Some(Record(cmd).content)
         /\ cmd \in DOMAIN cooldown_handlers'
         /\ cooldown_handlers'[cmd].last_used = now
         /\ cooldown_handlers'[cmd].cooldown = COOLDOWN
    ELSE IF now > cooldown_handlers[cmd].last_used + COOLDOWN
    THEN /\ cret' = Some(Record(cmd).content)
         /\ cooldown_handlers' =
              [cooldown_handlers EXCEPT ![cmd].last_used = now]
    ELSE /\ cret' = None
         /\ cooldown_handlers' = cooldown_handlers

\* C9 (as claimed): every use, by a sender outside the privileged set, of a
\* stored command that does not require elevation follows the cooldown
\* semantics: the first use creates the state with lastFiredAt = now and is
\* allowed; a later use at t is allowed and resets lastFiredAt to t exactly
\* when t > lastFiredAt + N; a denied use changes nothing.
C9_CooldownSemantics ==
    [][ ( /\ CommandStep
          /\ Sender \notin Privileged
          /\ Stored(Invoked)
          /\ Record(Invoked).mod = 0 )
        => CooldownSemantics(Invoked) ]_vars

\* The same for the senders that fail the test of main.py:333, which holds:
\* the cooldown arithmetic itself is as claimed.
CooldownSemanticsBelowModTest ==
    [][ ( /\ CommandStep
          /\ ~user_in_mods(Sender)
          /\ Stored(Invoked)
          /\ Record(Invoked).mod = 0 )
        => CooldownSemantics(Invoked) ]_vars

\* C10 (elevated use bypasses and never touches cooldowns): whenever a sender
\* of the privileged set invokes an existing stored command, command_handler
\* returns its content, whatever its mod flag and cooldown, that content (when
\* not empty) is the one line sent to chat, and cooldown_handlers is unchanged;
\* and any step that changes cooldown_handlers is a command of a sender
\* outside the privileged set.
C10_ElevatedBypass ==
    [][ /\ ( /\ CommandStep
             /\ Sender \in Privileged
             /\ Stored(Invoked) )
           => /\ cret' = Some(Record(Invoked).content)
              /\ cooldown_handlers' = cooldown_handlers
              /\ TruthyText(Record(Invoked).content)
                   => chat' = Append(chat, PrivMsg(Record(Invoked).content))
        /\ cooldown_handlers' /= cooldown_handlers
           => CommandStep /\ Sender \notin Privileged
      ]_vars

\* a privileged sender got the content of a command that is on cooldown
C10_Witness ==
    /\ lastline.name \in Privileged
    /\ Stored(lastline.words[1])
    /\ cret = Some(Record(lastline.words[1]).content)
    /\ lastline.words[1] \in DOMAIN cooldown_handlers
    /\ now <= cooldown_handlers[lastline.words[1]].last_used + COOLDOWN

----------------------------------------------------------------------------
(* C11..C15: elevation, the built-in names, CommandStore *)

\* the names of the built-in commands
BuiltinNames ==
    { "so", "addcom", "delcom", "esfollow", "essub", "nukeeventsubs",
      "disconnect", "auth" }

\* a name that is no privileged name but occurs inside the configured list
Fragment(name) == name \notin Privileged /\ str_in(name, MODS)

\* the state a command may change, apart from cooldowns and chat
AdminState == << db, subs, auth_state, mainpc, shut >>

\* C11 (as claimed): whenever a sender outside the privileged set invokes a
\* stored command whose requiresElevated flag is set, nothing is returned,
\* nothing is sent to chat and cooldown_handlers is unchanged.
C11_ElevatedOnlyDenied ==
    [][ ( /\ CommandStep
          /\ Sender \notin Privileged
          /\ Stored(Invoked)
          /\ Record(Invoked).mod = 1 )
        => /\ cret' = None
           /\ chat' = chat
           /\ cooldown_handlers' = cooldown_handlers ]_vars

\* The same for the senders that fail the test of main.py:333, which holds.
ElevatedOnlyDeniedBelowModTest ==
    [][ ( /\ CommandStep
          /\ ~user_in_mods(Sender)
          /\ Stored(Invoked)
          /\ Record(Invoked).mod = 1 )
        => /\ cret' = None
           /\ chat' = chat
           /\ cooldown_handlers' = cooldown_handlers ]_vars

\* C12 (as claimed): a sender is treated as elevated exactly when the name is
\* one of the privileged names.  A privileged sender is given every stored
\* command; any other sender is refused the elevated-only ones, is held to the
\* cooldown of the others, and changes neither CommandStore, the
\* subscriptions, the authorization state nor the running state of the process.
C12_ElevatedIffPrivileged ==
    [][ CommandStep =>
          /\ ( Sender \in Privileged /\ Stored(Invoked) )
               => cret' = Some(Record(Invoked).content)
          /\ Sender \notin Privileged
               => /\ ( Stored(Invoked) /\ Record(Invoked).mod = 1 )
                       => cret' = None
                  /\ ( /\ Stored(Invoked)
                       /\ Invoked \in DOMAIN cooldown_handlers
                       /\ now <= cooldown_handlers[Invoked].last_used + COOLDOWN )
                       => cret' = None
                  /\ AdminState' = AdminState ]_vars

\* C13 (as claimed, for the senders whose name is no fragment of the
\* configured list: those are C12's case): whenever a sender outside the
\* privileged set invokes a built-in command name, nothing is sent to chat and
\* neither CommandStore, the subscriptions, the authorization state, the
\* running state nor the cooldowns change.
C13_BuiltinNeedsElevation ==
    [][ ( /\ CommandStep
          /\ Sender \notin Privileged
          /\ ~Fragment(Sender)
          /\ Invoked \in BuiltinNames )
        => /\ chat' = chat
           /\ AdminState' = AdminState
           /\ cooldown_handlers' = cooldown_handlers ]_vars

\* the name an addcom line asks to insert, case-folded
AddcomName(words) ==
    IF lower(words[2]) = "mod" THEN lower(words[3]) ELSE lower(words[2])

\* CommandStore holds at most one record per name
UniqueNames ==
    \A j, k \in DOMAIN db : db[j].command = db[k].command => j = k

\* C14 (insert is no overwrite): CommandStore holds at most one record per
\* name at every moment, and whenever a privileged sender's addcom names a
\* command that exists, CommandStore is unchanged and add_command reports
\* failure; when the name is new, one record is added and success reported.
C14_InsertNoOverwrite ==
    /\ []UniqueNames
    /\ [][ ( /\ CommandStep
             /\ Sender \in Privileged
             /\ Invoked = "addcom"
             /\ ~Stored("addcom") )
           => IF Stored(AddcomName(lastline'.words))
              THEN db' = db /\ added' = Some(FALSE)
              ELSE /\ added' = Some(TRUE)
                   /\ Len(db') = Len(db) + 1
                   /\ SubSeq(db', 1, Len(db)) = db
                   /\ db'[Len(db')].command = AddcomName(lastline'.words) ]_vars

\* addcom greet Howdy was refused and the stock greet record is as it was
C14_Witness ==
    /\ lastline.words = << "addcom", "greet", "Howdy" >>
    /\ lastline.name \in Privileged
    /\ added = Some(FALSE)
    /\ Stored("greet")
    /\ Record("greet").content = << "Hello", " ", "there!" >>

\* C15 (as claimed): names are case-insensitive.  A privileged sender invoking
\* a name whose case-folded form is stored is given that record's content, and
\* a privileged sender's delcom removes the record whose name is the
\* case-folded argument.
C15_NamesCaseInsensitive ==
    [][ ( CommandStep /\ Sender \in Privileged ) =>
          /\ Stored(lower(Invoked))
               => cret' = Some(Record(lower(Invoked)).content)
          /\ ( /\ Invoked = "delcom"
               /\ ~Stored("delcom")
               /\ Len(lastline'.words) >= 2 )
               => \A k \in DOMAIN db' :
                      db'[k].command /= lower(lastline'.words[2]) ]_vars

----------------------------------------------------------------------------
(* C16, C17: greetings and the daily reset *)

\* this step handled a chat message that is no command
MessageStep == nlines' = nlines + 1 /\ lastmsg'.n = nlines'

\* the lines this step put on the chat socket
NewLines == { chat'[k] : k \in (Len(chat) + 1) .. Len(chat') }

\* the position of the last reset notice in chat (0 when there is none)
LastReset ==
    IF \E k \in DOMAIN chat : chat[k] = ResetNotice
    THEN CHOOSE k \in DOMAIN chat :
             /\ chat[k] = ResetNotice
             /\ \A j \in DOMAIN chat : chat[j] = ResetNotice => j <= k
    ELSE 0

\* the greetings of `name` since the last reset
GreetedSinceReset(name) ==
    { k \in DOMAIN chat : k > LastReset /\ chat[k] = Hi(name) }

\* the text case-insensitively contains a greeting word
IsGreeting(text) == \E word \in GREETINGS : str_in(word, lower_str(text))

\* C16 (one greeting per sender between resets): since the last reset every
\* sender has been greeted at most once, and exactly the greeted senders are
\* in seen_users; a greeting message from a sender in seen_users gets no
\* reply, one from a sender not in it (so also the first after a reset) gets
\* the reply; and a reset empties seen_users.
C16_GreetedOncePerDay ==
    /\ [](\A name \in BotUsers :
             /\ Cardinality(GreetedSinceReset(name)) <= 1
             /\ (GreetedSinceReset(name) /= {}) <=> (name \in Range(seen_users)))
    /\ [][ /\ ( MessageStep /\ IsGreeting(lastmsg'.text) )
              => ( Hi(lastmsg'.name) \in NewLines
                     <=> lastmsg'.name \notin Range(seen_users) )
           /\ ResetNotice \in NewLines => seen_users' = << >>
         ]_vars

\* a sender greeted before a reset has been greeted again after it
C16_Witness ==
    \E name \in BotUsers :
        /\ GreetedSinceReset(name) /= {}
        /\ \E k \in DOMAIN chat : k < LastReset /\ chat[k] = Hi(name)
        /\ lastmsg.name = name /\ IsGreeting(lastmsg.text)

\* C17 (as claimed): once the daily job is due, seen_users is eventually
\* cleared and the reset announced (or the process has stopped), whether or
\* not a line arrives on the chat socket.
C17_ResetWithoutTraffic ==
    (due /\ mainpc = "loop") ~> (~due \/ mainpc /= "loop")

----------------------------------------------------------------------------
(* C18: the chat-send primitive *)

\* every line a thread may send
AllLines == UNION { SendLines(t) : t \in Threads }

\* w is made of whole lines, the last of which may still be in the writing
RECURSIVE WholeLines(_)
WholeLines(w) ==
    \/ \E line \in AllLines :
           Len(w) <= Len(line) /\ w = SubSeq(line, 1, Len(w))
    \/ \E line \in AllLines :
           /\ Len(w) > Len(line)
           /\ SubSeq(w, 1, Len(line)) = line
           /\ WholeLines(SubSeq(w, Len(line) + 1, Len(w)))

\* C18 (as claimed): no two threads are inside sendmsg at the same time, and
\* what is on the socket is a sequence of whole lines.
C18_SendsSerialized ==
    /\ \A t, u \in Threads :
         (insend[t] /= << >> /\ insend[u] /= << >>) => t = u
    /\ WholeLines(wire)

----------------------------------------------------------------------------
(* C19, C20: the end of the process *)

\* the process has ended
Terminated == mainpc \in { "crashed", "exited" }

\* C19 (as claimed): when the process has ended, shut_down has called
\* nuke_eventsubs and then sent the farewell line.
C19_ShutdownBeforeExit ==
    Terminated
    => /\ shut = << "nuke_eventsubs", "sendmsg" >>
       /\ Farewell \in Range(chat)

\* C20 (as claimed): after a privileged sender's disconnect has unsubscribed
\* and sent the farewell, the process eventually ends.
C20_DisconnectTerminates ==
    ( /\ lastline.words = << "disconnect" >>
      /\ lastline.name \in Privileged
      /\ mainpc = "join" )
    ~> Terminated

----------------------------------------------------------------------------
(* C22: when an id is marked *)

\* C22 (as claimed): a verified request whose processing failed has left its
\* id unmarked.
C22_MarkedAfterSuccess ==
    ( /\ VerifiedFresh
      /\ last.exc /= "" )
    => ~Marked(last.req.id[1])

----------------------------------------------------------------------------
(* C25: built-in commands and stored commands of the same name *)

\* C25 (as claimed): whatever CommandStore holds, a privileged sender's
\* `!delcom <name>` removes the stored command of that name, and a privileged
\* sender's `!addcom <name> ...` with a name not stored inserts it.
C25_BuiltinsStayReachable ==
    [][ ( CommandStep /\ Sender \in Privileged /\ Len(lastline'.words) >= 2 ) =>
          /\ ( Invoked = "delcom" /\ Stored(lastline'.words[2]) )
               => \A k \in DOMAIN db' : db'[k].command /= lastline'.words[2]
          /\ ( Invoked = "addcom" /\ ~Stored(AddcomName(lastline'.words)) )
               => \E k \in DOMAIN db' :
                      db'[k].command = AddcomName(lastline'.words) ]_vars

----------------------------------------------------------------------------
(* C24: the database failing during the lookup *)

----------------------------------------------------------------------------
(* C21, C23: the lines of the chat server *)

\* this step handled what recv returned
ReadStep == nlines' = nlines + 1

\* the read holds a keep-alive ping line
HasPingLine(read) ==
    \E k \in DOMAIN read :
        read[k] = "PING" /\ (k = 1 \/ read[k - 1] = "\r\n")

\* C21 (as claimed): no inbound line ends the loop: after a round the main
\* thread is in the loop again, unless the round was a privileged sender's
\* disconnect.
C21_NoLineStopsLoop ==
    [][ ReadStep
        => \/ mainpc' = "loop"
           \/ /\ mainpc' = "join"
              /\ Invoked = "disconnect"
              /\ Sender \in Privileged ]_vars

\* C23 (as claimed): a read that holds a ping line is answered with a pong,
\* whatever else it holds; a read whose only PING is in the text of a channel
\* message is handled as a message and gets no pong.
C23_PingAnswered ==
    [][ ReadStep
        => /\ HasPingLine(ircmsg') => Pong \in NewLines
           /\ ( /\ ~HasPingLine(ircmsg')
                /\ \E k \in DOMAIN ircmsg' : ircmsg'[k] = "PRIVMSG" )
                => /\ Pong \notin NewLines
                   /\ lastmsg'.n = nlines' \/ lastline' /= lastline
                        \/ mainpc' /= "loop" ]_vars

=============================================================================
